---- MODULE Spec2Model ----
(***************************************************************************)
(* byteorder-pack: PackTo (src/src/pack.rs) and UnpackFrom                 *)
(* (src/src/unpack.rs) over a byte sink (std::io::Write) and a byte source *)
(* (std::io::Read).                                                        *)
(*                                                                         *)
(* The library keeps no state of its own: the state is the caller's sink   *)
(* and source, the record of the last encode call (enc) and of the last    *)
(* decode call (dec).  Types are named by their Rust spelling; a scalar    *)
(* value is an integer, an array or tuple value is a sequence.             *)
(***************************************************************************)
EXTENDS Integers, Sequences, FiniteSets, TLC

VARIABLES sink, source, enc, dec, target_endian

vars == <<sink, source, enc, dec, target_endian>>

(***************************************************************************)
(* Bounds of the model.                                                    *)
(***************************************************************************)
\* the sink accepts at most this many bytes before it rejects a write
MaxCap == 4
\* values per type: the seeds 0..MaxSeed of Gen
MaxSeed == 2
\* longest run handed to pack_multiple_to / unpack_multiple_into
MaxRun == 2

Orders == {"Big", "Little"}

Other(E) == IF E = "Big" THEN "Little" ELSE "Big"

Min(a, b) == IF a <= b THEN a ELSE b

RECURSIVE Reverse(_)
Reverse(s) == IF s = <<>> THEN <<>> ELSE Append(Reverse(Tail(s)), Head(s))

RECURSIVE Pow256(_)
Pow256(k) == IF k = 0 THEN 1 ELSE 256 * Pow256(k - 1)

(***************************************************************************)
(* The types.  Scalars are the instances of impl_primitive and the u8 / i8 *)
(* impls whose values fit 32-bit integer arithmetic; u32, u64, u128, i64,    *)
(* i128, f32 and f64 are further instances of the same macro line.         *)
(***************************************************************************)
Scalars == {"u8", "i8", "u16", "i16", "i32"}

ScalarWidth(s) ==
    CASE s \in {"u8", "i8"} -> 1
      [] s \in {"u16", "i16"} -> 2
      [] s = "i32" -> 4

Signed(s) == s \in {"i8", "i16", "i32"}

UnitType == "()"

ArrayTypes ==
    {"[u8;0]", "[u8;3]", "[i8;2]", "[u16;2]", "[i32;1]", "[[u8;2];2]",
     "[(u8,u16);2]", "[u8;2]", "[i16;2]"}

ArrayElem(T) ==
    CASE T \in {"[u8;0]", "[u8;3]", "[u8;2]"} -> "u8"
      [] T = "[i8;2]" -> "i8"
      [] T = "[u16;2]" -> "u16"
      [] T = "[i16;2]" -> "i16"
      [] T = "[i32;1]" -> "i32"
      [] T = "[[u8;2];2]" -> "[u8;2]"
      [] T = "[(u8,u16);2]" -> "(u8,u16)"

ArrayLen(T) ==
    CASE T = "[u8;0]" -> 0
      [] T = "[i32;1]" -> 1
      [] T = "[u8;3]" -> 3
      [] OTHER -> 2

TupleTypes ==
    {"(u8,)", "(u8,u16)", "(i16,i32)", "(u8,u8,u16,u16)", "(u8,u8,[u16;2])",
     "(u16,(u8,u16),[i16;2])", "((),u16)", "(u8 x12)"}

TupleFields(T) ==
    CASE T = "(u8,)" -> <<"u8">>
      [] T = "(u8,u16)" -> <<"u8", "u16">>
      [] T = "(i16,i32)" -> <<"i16", "i32">>
      [] T = "(u8,u8,u16,u16)" -> <<"u8", "u8", "u16", "u16">>
      [] T = "(u8,u8,[u16;2])" -> <<"u8", "u8", "[u16;2]">>
      [] T = "(u16,(u8,u16),[i16;2])" -> <<"u16", "(u8,u16)", "[i16;2]">>
      [] T = "((),u16)" -> <<"()", "u16">>
      [] T = "(u8 x12)" -> [i \in 1..12 |-> "u8"]

\* the types a call is made with: [u8;2] and [i16;2] occur as components only
Types ==
    Scalars \cup {UnitType} \cup (ArrayTypes \ {"[u8;2]", "[i16;2]"})
        \cup TupleTypes

\* element types of the runs of pack_multiple_to / unpack_multiple_into
RunElems == Scalars \cup {"[u8;2]", "(u8,u16)"}

(***************************************************************************)
(* Values.  Samples(s) lists values of scalar s: zero, one, the extremes   *)
(* and values whose bytes all differ; Gen(T, seed) builds a value of T.    *)
(***************************************************************************)
Samples(s) ==
    CASE s = "u8" -> <<1, 2, 255, 0, 128, 10, 20, 30>>
      [] s = "i8" -> <<-1, 127, -128, 0, 5, 1, -2>>
      [] s = "u16" -> <<3, 4, 65535, 0, 65280, 258, 1>>
      [] s = "i16" -> <<-2, 32767, -32768, 0, 258, -255, 1>>
      [] s = "i32" -> <<16909060, -1, -2147483647 - 1, 0, 2147483647, -16909060, 1>>

RECURSIVE Gen(_, _)
Gen(T, seed) ==
    IF T \in Scalars THEN Samples(T)[(seed % Len(Samples(T))) + 1]
    ELSE IF T = UnitType THEN <<>>
    ELSE IF T \in ArrayTypes
        THEN [i \in 1..ArrayLen(T) |-> Gen(ArrayElem(T), seed + i - 1)]
    ELSE [i \in 1..Len(TupleFields(T)) |-> Gen(TupleFields(T)[i], seed + i - 1)]

\* the values of the documented examples
Examples(T) ==
    CASE T = "[u8;3]" -> {<<10, 20, 30>>}
      [] T = "(u8,u8,u16,u16)" -> {<<1, 2, 3, 4>>}
      [] T = "(u8,u8,[u16;2])" -> {<<1, 2, <<3, 4>>>>}
      [] OTHER -> {}

ValsOf(T) == {Gen(T, seed) : seed \in 0..MaxSeed} \cup Examples(T)

RunsOf(T, n) == {[i \in 1..n |-> Gen(T, seed + 2 * (i - 1))] : seed \in 0..MaxSeed}

(***************************************************************************)
(* byteorder's ByteOrder for BigEndian and LittleEndian: byte k of v is    *)
(* (v >> 8k) & 0xff, which for a signed v is the byte of its two's         *)
(* complement (the cast `v as uN` the write_iN methods make).              *)
(***************************************************************************)
ByteOf(v, k) == (v \div Pow256(k)) % 256

\* mutant: the byte order is ignored, the bytes are always big-endian
ToBytesAlwaysBig(s, v, E) ==
    [i \in 1..ScalarWidth(s) |-> ByteOf(v, ScalarWidth(s) - i)]

RECURSIVE Significant(_)
Significant(bs) ==
    IF Len(bs) > 1 /\ Head(bs) = 0 THEN Significant(Tail(bs)) ELSE bs

\* mutant: leading zero bytes are not written (a variable-length encoding)
ToBytesCompact(s, v, E) ==
    LET be == Significant([i \in 1..ScalarWidth(s) |-> ByteOf(v, ScalarWidth(s) - i)])
    IN  IF E = "Big" THEN be ELSE Reverse(be)

ToBytes(s, v, E) ==
    LET w == ScalarWidth(s)
    IN  IF E = "Big" THEN [i \in 1..w |-> ByteOf(v, w - i)]
        ELSE [i \in 1..w |-> ByteOf(v, i - 1)]

RECURSIVE Horner(_, _)
\* the number whose digits, most significant first, follow acc
Horner(acc, digits) ==
    IF digits = <<>> THEN acc ELSE Horner(acc * 256 + Head(digits), Tail(digits))

\* mutant: the sign bit is dropped when a signed scalar is read
FromBytesNoSign(s, bs, E) ==
    LET be == IF E = "Big" THEN bs ELSE Reverse(bs)
    IN  Horner(IF Signed(s) THEN Head(be) % 128 ELSE Head(be), Tail(be))

FromBytes(s, bs, E) ==
    LET be == IF E = "Big" THEN bs ELSE Reverse(bs)
        top == IF Signed(s) /\ Head(be) >= 128 THEN Head(be) - 256 ELSE Head(be)
    IN  Horner(top, Tail(be))

(***************************************************************************)
(* The sink, a std::io::Write: a growing Vec behind a Cursor (lim FALSE),  *)
(* which takes every byte, or a byte slice (lim TRUE), which takes cap     *)
(* more bytes and then rejects.  log lists the writes of one call.         *)
(***************************************************************************)
Room(w, n) == IF w.lim THEN Min(n, w.cap) ELSE n

\* mutant support: a write that takes the whole buffer or nothing
WriteAllOrNothing(w, bs) ==
    IF Room(w, Len(bs)) = Len(bs)
    THEN [ok |-> TRUE,
          w |-> [w EXCEPT !.buf = @ \o bs, !.cap = IF w.lim THEN @ - Len(bs) ELSE @]]
    ELSE [ok |-> FALSE, w |-> w]

\* Write::write_all: write() until the buffer is written or a write fails
WriteAll(w, bs) ==
    LET n == Room(w, Len(bs))
    IN  [ok |-> n = Len(bs),
         w |-> [w EXCEPT !.buf = @ \o SubSeq(bs, 1, n),
                         !.cap = IF w.lim THEN @ - n ELSE @]]

Logged(r, entry) == [r EXCEPT !.w.log = Append(@, entry)]

\* WriteBytesExt::write_u8 / write_i8 / write_u16::<E> / ... of one scalar
WriteScalar(s, v, E, w) ==
    LET r == WriteAll(w, ToBytes(s, v, E))
    IN  Logged(r, [prim |-> "write", ty |-> s,
                   e |-> IF ScalarWidth(s) = 1 THEN "none" ELSE E,
                   n |-> ScalarWidth(s), ok |-> r.ok])

RECURSIVE PackTo(_, _, _, _)
RECURSIVE PackFields(_, _, _, _, _)
RECURSIVE PackFieldsSwapped(_, _, _, _, _)
RECURSIVE PackFieldsNoStop(_, _, _, _, _)
RECURSIVE PackFieldsFlipped(_, _, _, _, _)
RECURSIVE PackMultipleToDefault(_, _, _, _, _)
RECURSIVE PackMultipleTo(_, _, _, _)

\* mutant: the fields are written last to first
PackFieldsSwapped(T, v, E, w, i) ==
    IF i > Len(TupleFields(T)) THEN [ok |-> TRUE, w |-> w]
    ELSE LET j == Len(TupleFields(T)) + 1 - i
             r == PackTo(TupleFields(T)[j], v[j], E, w)
         IN  IF r.ok THEN PackFieldsSwapped(T, v, E, r.w, i + 1) ELSE r

\* mutant: a failed field write is ignored and the next field is written
PackFieldsNoStop(T, v, E, w, i) ==
    IF i > Len(TupleFields(T)) THEN [ok |-> TRUE, w |-> w]
    ELSE LET r == PackTo(TupleFields(T)[i], v[i], E, w)
             rest == PackFieldsNoStop(T, v, E, r.w, i + 1)
         IN  [ok |-> r.ok /\ rest.ok, w |-> rest.w]

\* mutant: the fields after the first are written in the other byte order
PackFieldsFlipped(T, v, E, w, i) ==
    IF i > Len(TupleFields(T)) THEN [ok |-> TRUE, w |-> w]
    ELSE LET r == PackTo(TupleFields(T)[i], v[i], IF i = 1 THEN E ELSE Other(E), w)
         IN  IF r.ok THEN PackFieldsFlipped(T, v, E, r.w, i + 1) ELSE r

\* impl_tuple: $(self.$n.pack_to::<E, _>(dst)?;)+ Ok(()), from field i on
PackFields(T, v, E, w, i) ==
    IF i > Len(TupleFields(T)) THEN [ok |-> TRUE, w |-> w]
    ELSE LET r == PackTo(TupleFields(T)[i], v[i], E, w)
         IN  IF r.ok THEN PackFields(T, v, E, r.w, i + 1) ELSE r

\* PackTo::pack_multiple_to, the default: for i in buf { i.pack_to(dst)?; }
PackMultipleToDefault(T, run, E, w, i) ==
    IF i > Len(run) THEN [ok |-> TRUE, w |-> w]
    ELSE LET r == PackTo(T, run[i], E, w)
         IN  IF r.ok THEN PackMultipleToDefault(T, run, E, r.w, i + 1) ELSE r

\* mutant: the block is written only when the sink takes all of it
PackMultipleToU8Atomic(run, w) ==
    LET r == WriteAllOrNothing(w, run)
    IN  Logged(r, [prim |-> "write_all", ty |-> "u8", e |-> "none",
                   n |-> Len(run), ok |-> r.ok])

\* impl PackTo for u8, pack_multiple_to: dst.write_all(buf)?; Ok(())
PackMultipleToU8(run, w) ==
    LET r == WriteAll(w, run)
    IN  Logged(r, [prim |-> "write_all", ty |-> "u8", e |-> "none",
                   n |-> Len(run), ok |-> r.ok])

\* T::pack_multiple_to as the trait resolves it: u8 overrides the default
PackMultipleTo(T, run, E, w) ==
    IF T = "u8" THEN PackMultipleToU8(run, w)
    ELSE PackMultipleToDefault(T, run, E, w, 1)

\* T::pack_to for the impl of T
PackTo(T, v, E, w) ==
    IF T \in Scalars THEN WriteScalar(T, v, E, w)
    ELSE IF T = UnitType THEN [ok |-> TRUE, w |-> w]
    ELSE IF T \in ArrayTypes THEN PackMultipleTo(ArrayElem(T), v, E, w)
    ELSE PackFields(T, v, E, w, 1)

PackToBe(T, v, w) == PackTo(T, v, "Big", w)

PackToLe(T, v, w) == PackTo(T, v, "Little", w)


(***************************************************************************)
(* The source, a std::io::Read over bytes, read from pos on.  read_exact   *)
(* of more bytes than are left fails with UnexpectedEof: a "cursor" (a     *)
(* Cursor, a byte slice) then leaves the caller's buffer as it was, a      *)
(* "stream" (Read's default read_exact) has copied the bytes that were     *)
(* left into the front of the buffer.  Both end at the end of the bytes.   *)
(* data is what the call put into the front of the caller's buffer.        *)
(***************************************************************************)
NoVal == <<>>

ReadExact(r, n) ==
    LET left == Len(r.bytes) - r.pos
    IN  IF n <= left
        THEN [ok |-> TRUE, err |-> "",
              data |-> SubSeq(r.bytes, r.pos + 1, r.pos + n),
              r |-> [r EXCEPT !.pos = @ + n]]
        ELSE [ok |-> FALSE, err |-> "UnexpectedEof",
              data |-> IF r.kind = "stream"
                       THEN SubSeq(r.bytes, r.pos + 1, Len(r.bytes)) ELSE <<>>,
              r |-> [r EXCEPT !.pos = Len(r.bytes)]]

Noted(r, entry) == [r EXCEPT !.log = Append(@, entry)]

\* ReadBytesExt::read_u8 / read_i8 / read_u16::<E> / ... of one scalar
ReadScalar(s, E, r) ==
    LET x == ReadExact(r, ScalarWidth(s))
    IN  [ok |-> x.ok, err |-> x.err,
         val |-> IF x.ok THEN FromBytes(s, x.data, E) ELSE NoVal,
         r |-> Noted(x.r, [prim |-> "read", ty |-> s,
                           e |-> IF ScalarWidth(s) = 1 THEN "none" ELSE E,
                           n |-> ScalarWidth(s), ok |-> x.ok])]

\* the first bytes of old replaced by new
Overlay(old, new) ==
    [i \in 1..Len(old) |-> IF i <= Len(new) THEN new[i] ELSE old[i]]

RECURSIVE Flatten(_)
Flatten(ss) == IF ss = <<>> THEN <<>> ELSE Head(ss) \o Flatten(Tail(ss))

\* the memory of a run of scalars s on the target: what slice_to_u8_mut views
RawBytes(s, slots) ==
    Flatten([i \in 1..Len(slots) |-> ToBytes(s, slots[i], target_endian)])

\* the run of scalars s that the target sees in the memory raw
Native(s, raw) ==
    LET w == ScalarWidth(s)
    IN  [i \in 1..(Len(raw) \div w) |->
            FromBytes(s, SubSeq(raw, (i - 1) * w + 1, i * w), target_endian)]

\* uN::swap_bytes
SwapBytes(s, x) == FromBytes(s, ToBytes(s, x, "Little"), "Big")

\* ByteOrder::from_slice_u16 / ...: to_be / to_le of each number in place
FromSlice(s, slots, E) ==
    [i \in 1..Len(slots) |->
        IF E = target_endian THEN slots[i] ELSE SwapBytes(s, slots[i])]

\* impl_primitive, u8 and i8: unpack_multiple_into is read_exact into the
\* memory of dst (read_u16_into::<E>, read_i8_into, read_exact), and on
\* success the conversion of dst in place
UnpackMultipleIntoBlock(s, E, r, dst) ==
    LET x == ReadExact(r, ScalarWidth(s) * Len(dst))
        mem == Native(s, Overlay(RawBytes(s, dst), x.data))
    IN  [ok |-> x.ok, err |-> x.err,
         dst |-> IF x.ok /\ ScalarWidth(s) > 1 THEN FromSlice(s, mem, E) ELSE mem,
         r |-> Noted(x.r, [prim |-> IF s = "u8" THEN "read_exact" ELSE "read_into",
                           ty |-> s,
                           e |-> IF ScalarWidth(s) = 1 THEN "none" ELSE E,
                           n |-> ScalarWidth(s) * Len(dst), ok |-> x.ok])]

RECURSIVE Default(_)
\* Default::default() of T
Default(T) ==
    IF T \in Scalars THEN 0
    ELSE IF T \in ArrayTypes THEN [i \in 1..ArrayLen(T) |-> Default(ArrayElem(T))]
    ELSE [i \in 1..Len(TupleFields(T)) |-> Default(TupleFields(T)[i])]

RECURSIVE HasUnpackFrom(_)
\* whether unpack.rs holds an impl UnpackFrom for T
HasUnpackFrom(T) ==
    IF T \in Scalars THEN TRUE
    ELSE IF T \in ArrayTypes THEN HasUnpackFrom(ArrayElem(T))
    ELSE IF T \in TupleTypes
        THEN \A i \in 1..Len(TupleFields(T)) : HasUnpackFrom(TupleFields(T)[i])
    ELSE FALSE

RECURSIVE UnpackFrom(_, _, _)
RECURSIVE UnpackFields(_, _, _, _, _)
RECURSIVE UnpackMultipleIntoDefault(_, _, _, _, _)
RECURSIVE UnpackMultipleInto(_, _, _, _)

\* impl_tuple: Ok(($($n::unpack_from::<E, _>(src)?,)+)), from field i on
UnpackFields(T, E, r, i, acc) ==
    IF i > Len(TupleFields(T)) THEN [ok |-> TRUE, err |-> "", val |-> acc, r |-> r]
    ELSE LET x == UnpackFrom(TupleFields(T)[i], E, r)
         IN  IF x.ok THEN UnpackFields(T, E, x.r, i + 1, Append(acc, x.val))
             ELSE [ok |-> FALSE, err |-> x.err, val |-> NoVal, r |-> x.r]

\* UnpackFrom::unpack_multiple_into, the default:
\* for i in dst { *i = Self::unpack_from(src)?; }, from slot i on
UnpackMultipleIntoDefault(T, E, r, dst, i) ==
    IF i > Len(dst) THEN [ok |-> TRUE, err |-> "", dst |-> dst, r |-> r]
    ELSE LET x == UnpackFrom(T, E, r)
         IN  IF x.ok
             THEN UnpackMultipleIntoDefault(T, E, x.r, [dst EXCEPT ![i] = x.val], i + 1)
             ELSE [ok |-> FALSE, err |-> x.err, dst |-> dst, r |-> x.r]

\* T::unpack_multiple_into as the trait resolves it: every scalar overrides it
UnpackMultipleInto(T, E, r, dst) ==
    IF T \in Scalars THEN UnpackMultipleIntoBlock(T, E, r, dst)
    ELSE UnpackMultipleIntoDefault(T, E, r, dst, 1)

\* impl UnpackFrom for [T; N]
UnpackArray(T, E, r) ==
    LET x == UnpackMultipleInto(ArrayElem(T), E, r,
                                [i \in 1..ArrayLen(T) |-> Default(ArrayElem(T))])
    IN  [ok |-> x.ok, err |-> x.err, val |-> IF x.ok THEN x.dst ELSE NoVal, r |-> x.r]

\* T::unpack_from for the impl of T
UnpackFrom(T, E, r) ==
    IF T \in Scalars THEN ReadScalar(T, E, r)
    ELSE IF T \in ArrayTypes THEN UnpackArray(T, E, r)
    ELSE UnpackFields(T, E, r, 1, <<>>)

UnpackFromBe(T, r) == UnpackFrom(T, "Big", r)

UnpackFromLe(T, r) == UnpackFrom(T, "Little", r)

(***************************************************************************)
(* The state machine: the caller's calls.  A caller makes a sink, encodes  *)
(* into it, and may then read the sink's bytes back as a source and decode *)
(* from it.                                                                *)
(***************************************************************************)
NoEnc ==
    [op |-> "none", T |-> "u8", e |-> "Big", v |-> <<>>, ok |-> TRUE,
     before |-> <<>>, lim |-> FALSE, cap |-> 0, out |-> <<>>, log |-> <<>>]

NoDec ==
    [op |-> "none", T |-> "u8", e |-> "Big", ok |-> TRUE, err |-> "", val |-> NoVal,
     before |-> <<>>, dst |-> <<>>, start |-> 0, left |-> 0, used |-> 0,
     log |-> <<>>]

NoSource == [bytes |-> <<>>, pos |-> 0, kind |-> "cursor"]

PreFills == {<<>>, <<170>>}

SourceKinds == {"cursor", "stream"}

Init ==
    /\ sink = [buf |-> <<>>, cap |-> 0, lim |-> FALSE]
    /\ source = NoSource
    /\ enc = NoEnc
    /\ dec = NoDec
    /\ target_endian \in Orders

Made(pre, cap, lim) ==
    /\ sink' = [buf |-> pre, cap |-> cap, lim |-> lim]
    /\ source' = NoSource
    /\ enc' = [NoEnc EXCEPT !.op = "new", !.before = pre, !.cap = cap, !.lim = lim]
    /\ dec' = NoDec
    /\ UNCHANGED target_endian

\* the caller makes a sink: a Cursor over a Vec that holds pre, or a byte
\* slice of cap bytes
NewSink ==
    \/ \E pre \in PreFills : Made(pre, 0, FALSE)
    \/ \E cap \in 0..MaxCap : Made(<<>>, cap, TRUE)

Encoded(op, T, E, v, r) ==
    /\ enc' = [op |-> op, T |-> T, e |-> E, v |-> v, ok |-> r.ok,
               before |-> sink.buf, lim |-> sink.lim, cap |-> sink.cap,
               out |-> SubSeq(r.w.buf, Len(sink.buf) + 1, Len(r.w.buf)),
               log |-> r.w.log]
    /\ sink' = [buf |-> r.w.buf, cap |-> r.w.cap, lim |-> r.w.lim]
    /\ UNCHANGED <<source, dec, target_endian>>

Writer == [buf |-> sink.buf, cap |-> sink.cap, lim |-> sink.lim, log |-> <<>>]

PackToCall ==
    /\ enc.op = "new"
    /\ \E T \in Types, E \in Orders :
         \E v \in ValsOf(T) : Encoded("pack_to", T, E, v, PackTo(T, v, E, Writer))

PackToBeCall ==
    /\ enc.op = "new"
    /\ \E T \in Types :
         \E v \in ValsOf(T) : Encoded("pack_to_be", T, "Big", v, PackToBe(T, v, Writer))

PackToLeCall ==
    /\ enc.op = "new"
    /\ \E T \in Types :
         \E v \in ValsOf(T) :
             Encoded("pack_to_le", T, "Little", v, PackToLe(T, v, Writer))

PackMultipleToCall ==
    /\ enc.op = "new"
    /\ \E T \in RunElems, E \in Orders, n \in 0..MaxRun :
         \E run \in RunsOf(T, n) :
             Encoded("pack_multiple_to", T, E, run, PackMultipleTo(T, run, E, Writer))

\* the caller reads the bytes pack_to left in the sink back as a source,
\* placed after the bytes the sink held before the call or at the start
LoadSource ==
    /\ enc.op = "pack_to"
    /\ dec.op = "none"
    /\ \E kind \in SourceKinds, pos \in {0, Len(enc.before)} :
         source' = [bytes |-> sink.buf, pos |-> pos, kind |-> kind]
    /\ dec' = [NoDec EXCEPT !.op = "loaded"]
    /\ UNCHANGED <<sink, enc, target_endian>>

Reader ==
    [bytes |-> source.bytes, pos |-> source.pos, kind |-> source.kind, log |-> <<>>]

Decoded(op, T, E, ok, err, val, before, dst, r) ==
    /\ dec' = [op |-> op, T |-> T, e |-> E, ok |-> ok, err |-> err, val |-> val,
               before |-> before, dst |-> dst, start |-> source.pos,
               left |-> Len(source.bytes) - source.pos,
               used |-> r.pos - source.pos, log |-> r.log]
    /\ source' = [bytes |-> r.bytes, pos |-> r.pos, kind |-> r.kind]
    /\ UNCHANGED <<sink, enc, target_endian>>

\* a call of an operation of T: there is none when T has no impl UnpackFrom
Unpacked(op, T, E, x) ==
    IF HasUnpackFrom(T)
    THEN Decoded(op, T, E, x.ok, x.err, x.val, <<>>, <<>>, x.r)
    ELSE Decoded(op, T, E, FALSE, "no impl", NoVal, <<>>, <<>>, Reader)

UnpackFromCall ==
    /\ dec.op = "loaded"
    /\ \E T \in Types, E \in Orders :
         Unpacked("unpack_from", T, E, UnpackFrom(T, E, Reader))

UnpackFromBeCall ==
    /\ dec.op = "loaded"
    /\ \E T \in Types : Unpacked("unpack_from_be", T, "Big", UnpackFromBe(T, Reader))

UnpackFromLeCall ==
    /\ dec.op = "loaded"
    /\ \E T \in Types :
         Unpacked("unpack_from_le", T, "Little", UnpackFromLe(T, Reader))

\* what the caller's dst holds before unpack_multiple_into
DstFills(T, n) ==
    {[i \in 1..n |-> Default(T)], [i \in 1..n |-> Gen(T, MaxSeed + i)]}

UnpackMultipleIntoCall ==
    /\ dec.op = "loaded"
    /\ \E T \in RunElems, E \in Orders, n \in 0..MaxRun :
         \E dst \in DstFills(T, n) :
             LET x == UnpackMultipleInto(T, E, Reader, dst)
             IN  Decoded("unpack_multiple_into", T, E, x.ok, x.err, NoVal, dst,
                         x.dst, x.r)

Next ==
    \/ NewSink
    \/ PackToCall
    \/ PackToBeCall
    \/ PackToLeCall
    \/ PackMultipleToCall
    \/ LoadSource
    \/ UnpackFromCall
    \/ UnpackFromBeCall
    \/ UnpackFromLeCall
    \/ UnpackMultipleIntoCall

Spec == Init /\ [][Next]_vars

(***************************************************************************)
(* What the properties speak of.                                           *)
(***************************************************************************)
PackOps == {"pack_to", "pack_to_be", "pack_to_le"}

UnpackOps == {"unpack_from", "unpack_from_be", "unpack_from_le"}

RECURSIVE Sum(_)
Sum(ns) == IF ns = <<>> THEN 0 ELSE Head(ns) + Sum(Tail(ns))

RECURSIVE Width(_)
\* the fixed width of T in bytes: the sum of the widths of its components
Width(T) ==
    IF T \in Scalars THEN ScalarWidth(T)
    ELSE IF T = UnitType THEN 0
    ELSE IF T \in ArrayTypes THEN ArrayLen(T) * Width(ArrayElem(T))
    ELSE Sum([i \in 1..Len(TupleFields(T)) |-> Width(TupleFields(T)[i])])

\* a sink that takes every byte, empty
Vec == [buf |-> <<>>, cap |-> 0, lim |-> FALSE, log |-> <<>>]

\* the bytes of the whole encoding of v
FullBytes(T, v, E) == PackTo(T, v, E, Vec).w.buf

FullRunBytes(T, run, E) == PackMultipleTo(T, run, E, Vec).w.buf

IsPrefix(a, b) == Len(a) <= Len(b) /\ SubSeq(b, 1, Len(a)) = a

\* the sink and the source as the last call found them
WriterBefore ==
    [buf |-> enc.before, cap |-> enc.cap, lim |-> enc.lim, log |-> <<>>]

ReaderBefore ==
    [bytes |-> source.bytes, pos |-> dec.start, kind |-> source.kind, log |-> <<>>]

\* the last decode read back, with the same type and order, what the last
\* encode wrote in full
ReadBack ==
    /\ dec.op \in UnpackOps
    /\ enc.ok
    /\ dec.T = enc.T
    /\ dec.e = enc.e
    /\ dec.start = Len(enc.before)

(***************************************************************************)
(* C1. Round trip: a scalar value written by pack_to under an order into   *)
(* an empty sink and read from the sink's bytes by unpack_from under the   *)
(* same order is decoded with success, and the value decoded is the value  *)
(* written.                                                                *)
(***************************************************************************)
RoundTrip ==
    (ReadBack /\ enc.T \in Scalars /\ enc.before = <<>>)
        => (dec.ok /\ dec.val = enc.v)

RoundTripWitness ==
    /\ ReadBack
    /\ enc.before = <<>>
    /\ enc.T = "i32"
    /\ enc.e = "Little"
    /\ enc.v = -2147483647 - 1
    /\ enc.out = <<0, 0, 0, 128>>
    /\ dec.ok
    /\ dec.val = enc.v

(***************************************************************************)
(* C2. Composition: pack_to of a tuple writes the bytes of its fields, in  *)
(* the order declared, one after the other and nothing else; unpack_from   *)
(* of these bytes as the same tuple type under the same order gives the    *)
(* tuple back; (1u8, 2u8, 3u16, 4u16) big-endian is 01 02 00 03 00 04.     *)
(***************************************************************************)
Composition ==
    /\ (enc.op \in PackOps /\ enc.T \in TupleTypes /\ enc.ok)
          => enc.out = Flatten([i \in 1..Len(TupleFields(enc.T)) |->
                                   FullBytes(TupleFields(enc.T)[i], enc.v[i], enc.e)])
    /\ (ReadBack /\ enc.T \in TupleTypes /\ HasUnpackFrom(enc.T))
          => (dec.ok /\ dec.val = enc.v)
    /\ (enc.op \in PackOps /\ enc.T = "(u8,u8,u16,u16)" /\ enc.ok /\ enc.e = "Big"
            /\ enc.v = <<1, 2, 3, 4>>)
          => enc.out = <<1, 2, 0, 3, 0, 4>>

CompositionWitness ==
    /\ ReadBack
    /\ enc.T = "(u8,u8,u16,u16)"
    /\ enc.e = "Big"
    /\ enc.v = <<1, 2, 3, 4>>
    /\ enc.out = <<1, 2, 0, 3, 0, 4>>
    /\ dec.ok
    /\ dec.val = <<1, 2, 3, 4>>

(***************************************************************************)
(* C3. Width: a pack_to that succeeds has moved the sink on by exactly the *)
(* width of the type, whatever the value, and an unpack_from that succeeds *)
(* has taken exactly the width of the type from the source.                *)
(***************************************************************************)
WidthLaw ==
    /\ (enc.op \in PackOps /\ enc.ok)
          => /\ Len(enc.out) = Width(enc.T)
             /\ Len(sink.buf) = Len(enc.before) + Width(enc.T)
    /\ (dec.op \in UnpackOps /\ dec.ok)
          => /\ dec.used = Width(dec.T)
             /\ source.pos = dec.start + Width(dec.T)

WidthLawWitness ==
    /\ ReadBack
    /\ dec.ok
    /\ dec.T = "(u16,(u8,u16),[i16;2])"
    /\ dec.start = 1
    /\ source.pos = 10
    /\ Len(enc.out) = 9

OneByte(T) ==
    \/ T \in Scalars /\ ScalarWidth(T) = 1
    \/ T \in ArrayTypes /\ ArrayElem(T) \in Scalars /\ ScalarWidth(ArrayElem(T)) = 1

(***************************************************************************)
(* C4. Order sensitivity: the bytes pack_to writes for a scalar of more    *)
(* than one byte under Big are the bytes it writes under Little, reversed; *)
(* for u8, i8 and arrays and runs of them the bytes are the same under     *)
(* both orders, and [10, 20, 30] is written as 0A 14 1E.                   *)
(***************************************************************************)
OrderSensitivity ==
    /\ (enc.op \in PackOps /\ enc.ok /\ enc.T \in Scalars /\ ScalarWidth(enc.T) > 1)
          => enc.out = Reverse(FullBytes(enc.T, enc.v, Other(enc.e)))
    /\ (enc.op \in PackOps /\ enc.ok /\ OneByte(enc.T))
          => enc.out = FullBytes(enc.T, enc.v, Other(enc.e))
    /\ (enc.op = "pack_multiple_to" /\ enc.ok /\ enc.T \in {"u8", "i8"})
          => enc.out = FullRunBytes(enc.T, enc.v, Other(enc.e))
    /\ (enc.op \in PackOps /\ enc.ok /\ enc.T = "[u8;3]" /\ enc.v = <<10, 20, 30>>)
          => enc.out = <<10, 20, 30>>

OrderSensitivityWitness ==
    /\ enc.op = "pack_to"
    /\ enc.ok
    /\ enc.T = "i32"
    /\ enc.e = "Little"
    /\ enc.v = 16909060
    /\ enc.out = <<4, 3, 2, 1>>
    /\ FullBytes("i32", enc.v, "Big") = <<1, 2, 3, 4>>

(***************************************************************************)
(* C6. Encode failure: when the sink rejects a write during pack_to or     *)
(* pack_multiple_to, the call fails at that write and makes no write after *)
(* it; every write before it succeeded; the bytes the sink held and the    *)
(* bytes written before the failure stay, and the bytes added are a proper *)
(* prefix of the whole encoding.                                           *)
(***************************************************************************)
EncodeFailure ==
    /\ enc.op \in PackOps \cup {"pack_multiple_to"}
          => /\ \A i \in 1..(Len(enc.log) - 1) : enc.log[i].ok
             /\ IsPrefix(enc.before, sink.buf)
    /\ (enc.op \in PackOps /\ ~enc.ok)
          => /\ ~enc.log[Len(enc.log)].ok
             /\ IsPrefix(enc.out, FullBytes(enc.T, enc.v, enc.e))
             /\ enc.out # FullBytes(enc.T, enc.v, enc.e)
    /\ (enc.op = "pack_multiple_to" /\ ~enc.ok)
          => /\ ~enc.log[Len(enc.log)].ok
             /\ IsPrefix(enc.out, FullRunBytes(enc.T, enc.v, enc.e))
             /\ enc.out # FullRunBytes(enc.T, enc.v, enc.e)

EncodeFailureWitness ==
    /\ enc.op = "pack_to"
    /\ ~enc.ok
    /\ enc.T = "(u8,u8,u16,u16)"
    /\ enc.e = "Big"
    /\ enc.v = <<1, 2, 3, 4>>
    /\ enc.out = <<1, 2, 0>>
    /\ Len(enc.log) = 3

SameEncode(r) ==
    /\ enc.ok = r.ok
    /\ sink.buf = r.w.buf
    /\ sink.cap = r.w.cap

SameDecode(x) ==
    /\ dec.ok = x.ok
    /\ dec.err = x.err
    /\ dec.val = x.val
    /\ source.pos = x.r.pos

(***************************************************************************)
(* C8. One order per call: every scalar write and read a call makes, at    *)
(* any depth of tuples and arrays, uses the order the call was made with;  *)
(* pack_to_be and unpack_from_be do what pack_to and unpack_from do with   *)
(* Big, pack_to_le and unpack_from_le what they do with Little: the same   *)
(* result, the same bytes, the same place in the sink or the source.       *)
(***************************************************************************)
OrderFixed ==
    /\ enc.op \in PackOps \cup {"pack_multiple_to"}
          => \A i \in 1..Len(enc.log) : enc.log[i].e \in {"none", enc.e}
    /\ (dec.op \in UnpackOps \cup {"unpack_multiple_into"})
          => \A i \in 1..Len(dec.log) : dec.log[i].e \in {"none", dec.e}
    /\ enc.op = "pack_to_be"
          => enc.e = "Big" /\ SameEncode(PackTo(enc.T, enc.v, "Big", WriterBefore))
    /\ enc.op = "pack_to_le"
          => enc.e = "Little" /\ SameEncode(PackTo(enc.T, enc.v, "Little", WriterBefore))
    /\ (dec.op = "unpack_from_be" /\ HasUnpackFrom(dec.T))
          => dec.e = "Big" /\ SameDecode(UnpackFrom(dec.T, "Big", ReaderBefore))
    /\ (dec.op = "unpack_from_le" /\ HasUnpackFrom(dec.T))
          => dec.e = "Little" /\ SameDecode(UnpackFrom(dec.T, "Little", ReaderBefore))

OrderFixedWitness ==
    /\ ReadBack
    /\ dec.op = "unpack_from_le"
    /\ dec.T = "(u16,(u8,u16),[i16;2])"
    /\ dec.ok
    /\ dec.val = enc.v
    /\ enc.v = <<3, <<2, 65535>>, <<-32768, 0>>>>
    /\ enc.out = <<3, 0, 2, 255, 255, 0, 128, 0, 0>>
    /\ Len(enc.log) = 5
    /\ Len(dec.log) = 4

(***************************************************************************)
(* C10. Bulk write: pack_multiple_to of a run of u8, one block write,      *)
(* gives the result that the default loop of pack_to over the run gives,   *)
(* and leaves the same bytes in the sink, whether the sink takes the whole *)
(* run or rejects it part way.                                             *)
(***************************************************************************)
BulkWrite ==
    /\ (enc.op = "pack_multiple_to" /\ enc.T = "u8")
          => SameEncode(PackMultipleToDefault("u8", enc.v, enc.e, WriterBefore, 1))
    /\ (enc.op \in PackOps /\ enc.T \in ArrayTypes /\ ArrayElem(enc.T) = "u8")
          => SameEncode(PackMultipleToDefault("u8", enc.v, enc.e, WriterBefore, 1))

BulkWriteWitness ==
    /\ enc.op = "pack_multiple_to"
    /\ enc.T = "u8"
    /\ Len(enc.v) = 2
    /\ ~enc.ok
    /\ Len(enc.out) = 1
    /\ enc.log = <<[prim |-> "write_all", ty |-> "u8", e |-> "none", n |-> 2,
                    ok |-> FALSE]>>

\* the part on the failure alone
ShortReadFails ==
    (dec.op \in UnpackOps /\ HasUnpackFrom(dec.T) /\ dec.left < Width(dec.T))
        => (~dec.ok /\ dec.err = "UnexpectedEof" /\ dec.val = NoVal)

\* some read of the call decoded one scalar with success
DecodedOne ==
    \E i \in 1..Len(dec.log) : dec.log[i].prim = "read" /\ dec.log[i].ok

(***************************************************************************)
(* C5. Short read: unpack_from of a type from a source that holds fewer    *)
(* bytes than the width of the type fails with a short read and yields no  *)
(* value; decoding [u16; 2] from three bytes fails after the first element *)
(* has been decoded with success.                                          *)
(***************************************************************************)
ShortRead ==
    /\ ShortReadFails
    /\ (dec.op \in UnpackOps /\ dec.T = "[u16;2]" /\ dec.left = 3)
          => (~dec.ok /\ DecodedOne)

\* the bytes of element i (from 1) of the source the call was made on
ElementBytes(w, i) ==
    SubSeq(source.bytes, dec.start + (i - 1) * w + 1, dec.start + i * w)

(***************************************************************************)
(* C7. Decode run failure: when unpack_multiple_into of scalars fails      *)
(* because the source cannot supply element k, the slots before k hold the *)
(* values decoded from the source under the order of the call and the      *)
(* slots from k on hold what they held before the call.                    *)
(***************************************************************************)
DecodeRunFailure ==
    (dec.op = "unpack_multiple_into" /\ ~dec.ok /\ dec.T \in Scalars)
        => LET w == ScalarWidth(dec.T)
               k == dec.left \div w
           IN  /\ \A i \in 1..k :
                     dec.dst[i] = FromBytes(dec.T, ElementBytes(w, i), dec.e)
               /\ \A i \in (k + 1)..Len(dec.dst) : dec.dst[i] = dec.before[i]

\* the same of the runs the default loop decodes: the slots after the last
\* element decoded are as they were
DecodeRunFailureLoop ==
    (dec.op = "unpack_multiple_into" /\ ~dec.ok /\ dec.T \notin Scalars)
        => LET k == dec.left \div Width(dec.T)
           IN  /\ \A i \in 1..k :
                     dec.dst[i] = UnpackFrom(dec.T, dec.e,
                                     [ReaderBefore EXCEPT
                                        !.pos = @ + (i - 1) * Width(dec.T)]).val
               /\ \A i \in (k + 1)..Len(dec.dst) : dec.dst[i] = dec.before[i]

(***************************************************************************)
(* C9. Zero-field decode: decoding the unit type from any source succeeds, *)
(* takes no byte and gives the unit value.                                 *)
(***************************************************************************)
UnitDecode ==
    (dec.op \in UnpackOps /\ dec.T = UnitType)
        => (dec.ok /\ dec.used = 0 /\ dec.val = <<>>)

\* the unit encode it would mirror: it succeeds and writes nothing
UnitEncode ==
    (enc.op \in PackOps /\ enc.T = UnitType)
        => (enc.ok /\ enc.out = <<>> /\ enc.log = <<>>)

====
